---- MODULE Spec2Model ----
(***************************************************************************)
(* The request admission pipeline of pkg/config/middleware.go: the chain   *)
(* that SetupGlobalMiddleware assembles from Config, and the handlers of   *)
(* its gates (auth, requireGroupClaim, statsdMiddleware,                   *)
(* prometheusMiddleware, static, recovery, application handler).           *)
(*                                                                         *)
(* Strings that the code slices (paths, prefixes) are sequences of         *)
(* one-character strings.  A raw token string is the record of what it     *)
(* decodes to (algorithm, signing key, groups claim); the empty string is  *)
(* EmptyStr.  A request is served by one goroutine: it walks the chain     *)
(* forwards (phase "fwd", one action per gate) and, once a gate has        *)
(* answered or panicked, unwinds through the deferred functions of the     *)
(* gates it passed (phase "unwind").                                       *)
(***************************************************************************)
EXTENDS Integers, Sequences, FiniteSets, TLC

VARIABLES
    Config,     \* the process-wide configuration, fixed at start
    authGate,   \* what setupJWTAuthMiddleware captured when the chain was built
    reqs        \* the requests in flight, one record per goroutine slot

vars == <<Config, authGate, reqs>>

----------------------------------------------------------------------------
(* Bounds *)

MaxPathLen == 2

NSlots == 2

PathChars == {"a", "b"}

Slots == 1..NSlots

----------------------------------------------------------------------------
(* Strings *)

RECURSIVE SeqsUpTo(_)
SeqsUpTo(n) ==
    IF n = 0 THEN {<<>>}
    ELSE LET S == SeqsUpTo(n - 1)
         IN  S \cup {Append(s, c) : s \in S, c \in PathChars}

Paths == SeqsUpTo(MaxPathLen)

\* strings.HasPrefix
HasPrefix(s, p) == Len(p) <= Len(s) /\ SubSeq(s, 1, Len(p)) = p

\* strings.TrimPrefix
TrimPrefix(s, p) == IF HasPrefix(s, p) THEN SubSeq(s, Len(p) + 1, Len(s)) ELSE s

----------------------------------------------------------------------------
(* Keys and tokens *)

NilKey == [kind |-> "nil", val |-> ""]

\* []byte(s)
Bytes(s) == [kind |-> "bytes", val |-> s]

\* The RSA public key that the PEM text "PEM" encodes.
RSAKey == [kind |-> "rsa", val |-> "K"]

\* jwt.ParseRSAPublicKeyFromPEM: the key and whether parsing failed.
ParseRSAPublicKeyFromPEM(b) ==
    IF b.val = "PEM" THEN [key |-> RSAKey, err |-> FALSE]
    ELSE [key |-> NilKey, err |-> TRUE]

AbsentGroups == [kind |-> "absent", val |-> {}]
NullGroups == [kind |-> "null", val |-> {}]
StringGroups(s) == [kind |-> "string", val |-> {s}]
ListGroups(S) == [kind |-> "list", val |-> S]

\* A raw token string: the algorithm of its header, the key that signed it
\* and its groups claim.
Tok(alg, key, groups) == [alg |-> alg, key |-> key, groups |-> groups]

\* The empty string, and a string that is no JWT at all.
EmptyStr == Tok("", NilKey, AbsentGroups)
Malformed == Tok("malformed", NilKey, AbsentGroups)

AdminHS == Tok("HS256", Bytes("s"), ListGroups({"admin"}))
ViewerHS == Tok("HS256", Bytes("s"), ListGroups({"viewer"}))
AdminEmptyKeyHS == Tok("HS256", Bytes(""), ListGroups({"admin"}))
AdminRS == Tok("RS256", RSAKey, ListGroups({"admin"}))
AdminPemHS == Tok("HS256", Bytes("PEM"), ListGroups({"admin"}))
NoGroupsHS == Tok("HS256", Bytes("s"), AbsentGroups)
NullGroupsHS == Tok("HS256", Bytes("s"), NullGroups)
StringGroupsHS == Tok("HS256", Bytes("s"), StringGroups("admin"))

\* The signing method of jwt-go for an algorithm verifies a signature only
\* with a key of its own kind: HMAC with bytes, RSA with an RSA public key.
MethodVerify(tok, key) ==
    /\ key = tok.key
    /\ \/ tok.alg = "HS256" /\ key.kind = "bytes"
       \/ tok.alg = "RS256" /\ key.kind = "rsa"

----------------------------------------------------------------------------
(* Configuration *)

StatusUnauthorized == 401

StatusTemporaryRedirect == 307

\* The values given to JWTAuthNoTokenStatusCode: 401, and two redirect statuses.
NoTokenStatusCodes == {StatusUnauthorized, StatusTemporaryRedirect, 302}

RedirectStatusCodes == NoTokenStatusCodes \ {StatusUnauthorized}

\* Global.Prometheus.ScrapePath
ScrapePath == <<"b", "b">>

BaseConfig ==
    [MiddlewareGzipEnabled |-> FALSE,
     MiddlewareVerboseLoggerEnabled |-> FALSE,
     StatsdEnabled |-> FALSE,
     PrometheusEnabled |-> FALSE,
     NewRelicEnabled |-> FALSE,
     CORSEnabled |-> FALSE,
     PProfEnabled |-> FALSE,
     JWTAuthEnabled |-> TRUE,
     JWTAuthRequireGroupClaim |-> "",
     JWTAuthSigningMethod |-> "HS256",
     JWTAuthSecret |-> "s",
     JWTAuthNoTokenStatusCode |-> StatusUnauthorized,
     JWTAuthNoTokenRedirectURL |-> "https://login",
     JWTAuthPrefixWhitelistPaths |-> {},
     JWTAuthExactWhitelistPaths |-> {},
     WebPrefix |-> <<>>]

WithFlags(c, gz, lg, sd, pm, nr, co, pp) ==
    [c EXCEPT !.MiddlewareGzipEnabled = gz,
              !.MiddlewareVerboseLoggerEnabled = lg,
              !.StatsdEnabled = sd,
              !.PrometheusEnabled = pm,
              !.NewRelicEnabled = nr,
              !.CORSEnabled = co,
              !.PProfEnabled = pp]

\* Configurations that vary the whitelist rules, the base prefix and the
\* missing-token status.
WhitelistConfigs ==
    {[BaseConfig EXCEPT !.JWTAuthRequireGroupClaim = g,
                        !.JWTAuthNoTokenStatusCode = st,
                        !.WebPrefix = wp,
                        !.JWTAuthPrefixWhitelistPaths = P,
                        !.JWTAuthExactWhitelistPaths = E] :
        g \in {"", "admin"}, st \in NoTokenStatusCodes, wp \in {<<>>, <<"a">>},
        P \in {{}, {<<>>}, {<<>>, <<"b">>}}, E \in {{}, {<<"b">>}}}

\* Configurations that vary the signing method and the secret.
SigningConfigs ==
    {[BaseConfig EXCEPT !.JWTAuthRequireGroupClaim = g,
                        !.JWTAuthNoTokenStatusCode = st,
                        !.JWTAuthSigningMethod = m,
                        !.JWTAuthSecret = s] :
        g \in {"", "admin"}, st \in NoTokenStatusCodes,
        m \in {"HS256", "RS256", "ES512"}, s \in {"s", "PEM"}}

\* Configurations without the auth gate, with and without whitelist rules
\* and the optional gates.
NoAuthConfigs ==
    {WithFlags([BaseConfig EXCEPT !.JWTAuthEnabled = FALSE,
                                  !.JWTAuthRequireGroupClaim = g,
                                  !.JWTAuthNoTokenStatusCode = st,
                                  !.JWTAuthPrefixWhitelistPaths = W,
                                  !.JWTAuthExactWhitelistPaths = W],
               f, f, f, f, f, f, f) :
        g \in {"", "admin"}, st \in NoTokenStatusCodes,
        W \in {{}, {<<"b">>}}, f \in BOOLEAN}

\* Configurations with the optional gates: all of them, and each telemetry
\* gate alone.
GateConfigs ==
    {WithFlags([BaseConfig EXCEPT !.JWTAuthRequireGroupClaim = g],
               f[1], f[1], f[2], f[3], f[1], f[1], f[1]) :
        g \in {"", "admin"},
        f \in {<<TRUE, TRUE, TRUE>>, <<FALSE, TRUE, FALSE>>, <<FALSE, FALSE, TRUE>>}}

Configs == WhitelistConfigs \cup SigningConfigs \cup NoAuthConfigs \cup GateConfigs

----------------------------------------------------------------------------
(* SetupGlobalMiddleware: the chain, outermost gate first.  negroni runs  *)
(* the handlers in the order of the Use calls; UseHandler adds the last.  *)

Opt(flag, gate) == IF flag THEN <<gate>> ELSE <<>>

\* The chain with the group gate added before the auth gate.
SetupGlobalMiddlewareGroupFirst(c) ==
    Opt(c.MiddlewareGzipEnabled, "gzip")
    \o Opt(c.MiddlewareVerboseLoggerEnabled, "logger")
    \o Opt(c.StatsdEnabled, "statsd")
    \o Opt(c.PrometheusEnabled, "prometheus")
    \o Opt(c.NewRelicEnabled, "newrelic")
    \o Opt(c.CORSEnabled, "cors")
    \o Opt(c.JWTAuthRequireGroupClaim # "", "group")
    \o Opt(c.JWTAuthEnabled, "auth")
    \o <<"static">>
    \o <<"recovery">>
    \o <<"handler">>

\* The chain with the telemetry gates added after the two authentication
\* gates.
SetupGlobalMiddlewareTelemetryInside(c) ==
    Opt(c.MiddlewareGzipEnabled, "gzip")
    \o Opt(c.MiddlewareVerboseLoggerEnabled, "logger")
    \o Opt(c.NewRelicEnabled, "newrelic")
    \o Opt(c.CORSEnabled, "cors")
    \o Opt(c.JWTAuthEnabled, "auth")
    \o Opt(c.JWTAuthRequireGroupClaim # "", "group")
    \o Opt(c.StatsdEnabled, "statsd")
    \o Opt(c.PrometheusEnabled, "prometheus")
    \o <<"static">>
    \o <<"recovery">>
    \o <<"handler">>

\* The chain with the group gate added only beside the auth gate.
SetupGlobalMiddlewareGroupNeedsAuth(c) ==
    Opt(c.MiddlewareGzipEnabled, "gzip")
    \o Opt(c.MiddlewareVerboseLoggerEnabled, "logger")
    \o Opt(c.StatsdEnabled, "statsd")
    \o Opt(c.PrometheusEnabled, "prometheus")
    \o Opt(c.NewRelicEnabled, "newrelic")
    \o Opt(c.CORSEnabled, "cors")
    \o Opt(c.JWTAuthEnabled, "auth")
    \o Opt(c.JWTAuthEnabled /\ c.JWTAuthRequireGroupClaim # "", "group")
    \o <<"static">>
    \o <<"recovery">>
    \o <<"handler">>

\* The chain with the Prometheus gate added after the two authentication
\* gates.
SetupGlobalMiddlewarePrometheusInside(c) ==
    Opt(c.MiddlewareGzipEnabled, "gzip")
    \o Opt(c.MiddlewareVerboseLoggerEnabled, "logger")
    \o Opt(c.StatsdEnabled, "statsd")
    \o Opt(c.NewRelicEnabled, "newrelic")
    \o Opt(c.CORSEnabled, "cors")
    \o Opt(c.JWTAuthEnabled, "auth")
    \o Opt(c.JWTAuthRequireGroupClaim # "", "group")
    \o Opt(c.PrometheusEnabled, "prometheus")
    \o <<"static">>
    \o <<"recovery">>
    \o <<"handler">>

SetupGlobalMiddleware(c) ==
    Opt(c.MiddlewareGzipEnabled, "gzip")
    \o Opt(c.MiddlewareVerboseLoggerEnabled, "logger")
    \o Opt(c.StatsdEnabled, "statsd")
    \o Opt(c.PrometheusEnabled, "prometheus")
    \o Opt(c.NewRelicEnabled, "newrelic")
    \o Opt(c.CORSEnabled, "cors")
    \o Opt(c.JWTAuthEnabled, "auth")
    \o Opt(c.JWTAuthRequireGroupClaim # "", "group")
    \o <<"static">>
    \o <<"recovery">>
    \o <<"handler">>

Chain == SetupGlobalMiddleware(Config)

\* The position of a gate in a chain, 0 when it is not in it.
IndexOf(chain, gate) ==
    IF \E k \in 1..Len(chain) : chain[k] = gate
    THEN CHOOSE k \in 1..Len(chain) : chain[k] = gate
    ELSE 0

----------------------------------------------------------------------------
(* setupJWTAuthMiddleware: the auth gate and what its key getter captured *)

setupJWTAuthMiddleware(c) ==
    LET parsed == ParseRSAPublicKeyFromPEM(Bytes(c.JWTAuthSecret))
        keying ==
            CASE c.JWTAuthSigningMethod = "HS256" ->
                    [signingMethod |-> "HS256",
                     validationKey |-> Bytes(c.JWTAuthSecret),
                     errParsingKey |-> FALSE]
              [] c.JWTAuthSigningMethod = "RS256" ->
                    [signingMethod |-> "RS256",
                     validationKey |-> parsed.key,
                     errParsingKey |-> parsed.err]
              [] OTHER ->
                    [signingMethod |-> "HS256",
                     validationKey |-> Bytes(""),
                     errParsingKey |-> FALSE]
    IN  [PrefixWhitelistPaths |-> c.JWTAuthPrefixWhitelistPaths,
         ExactWhitelistPaths |-> c.JWTAuthExactWhitelistPaths,
         signingMethod |-> keying.signingMethod,
         validationKey |-> keying.validationKey,
         errParsingKey |-> keying.errParsingKey]

\* No auth gate was built.
NoAuthGate ==
    [PrefixWhitelistPaths |-> {}, ExactWhitelistPaths |-> {},
     signingMethod |-> "", validationKey |-> NilKey, errParsingKey |-> FALSE]

----------------------------------------------------------------------------
(* jwtErrorHandler: the response to a rejection; err is only passed in *)

NoResponse ==
    [written |-> FALSE, status |-> 0, location |-> "",
     wwwAuthenticate |-> <<>>, body |-> ""]

\* http.Redirect(w, r, url, code)
Redirect(url, code) ==
    [written |-> TRUE, status |-> code, location |-> url,
     wwwAuthenticate |-> <<>>, body |-> ""]

\* jwtErrorHandler redirecting for every status other than 401, with the
\* configured status.
jwtErrorHandlerAnyRedirect(c, err) ==
    CASE c.JWTAuthNoTokenStatusCode # StatusUnauthorized ->
            Redirect(c.JWTAuthNoTokenRedirectURL, c.JWTAuthNoTokenStatusCode)
      [] OTHER ->
            [written |-> TRUE, status |-> StatusUnauthorized, location |-> "",
             wwwAuthenticate |-> <<"Bearer realm=", c.JWTAuthNoTokenRedirectURL>>,
             body |-> "Not authorized"]

\* jwtErrorHandler writing the error it was given into the 401 body.
jwtErrorHandlerWithReason(c, err) ==
    CASE c.JWTAuthNoTokenStatusCode = StatusTemporaryRedirect ->
            Redirect(c.JWTAuthNoTokenRedirectURL, StatusTemporaryRedirect)
      [] OTHER ->
            [written |-> TRUE, status |-> StatusUnauthorized, location |-> "",
             wwwAuthenticate |-> <<"Bearer realm=", c.JWTAuthNoTokenRedirectURL>>,
             body |-> err]

jwtErrorHandler(c, err) ==
    CASE c.JWTAuthNoTokenStatusCode = StatusTemporaryRedirect ->
            Redirect(c.JWTAuthNoTokenRedirectURL, StatusTemporaryRedirect)
      [] OTHER ->
            [written |-> TRUE, status |-> StatusUnauthorized, location |-> "",
             wwwAuthenticate |-> <<"Bearer realm=", c.JWTAuthNoTokenRedirectURL>>,
             body |-> "Not authorized"]

----------------------------------------------------------------------------
(* auth.whitelist *)

EffectivePath(c, path) ==
    IF c.WebPrefix # <<>> THEN TrimPrefix(path, c.WebPrefix) ELSE path

ExactMatch(a, path) == \E p \in a.ExactWhitelistPaths : p = path

PrefixMatch(a, path) ==
    \E p \in a.PrefixWhitelistPaths : p # <<>> /\ HasPrefix(path, p)

\* whitelist without the test that skips an empty prefix rule.
whitelistEmptyRule(a, c, reqPath) ==
    LET path == EffectivePath(c, reqPath)
    IN  \/ c.JWTAuthNoTokenStatusCode = StatusUnauthorized /\ ExactMatch(a, path)
        \/ \E p \in a.PrefixWhitelistPaths : HasPrefix(path, p)

\* whitelist consulting the exact rules whatever the status.
whitelistExactAlways(a, c, reqPath) ==
    LET path == EffectivePath(c, reqPath)
    IN  \/ ExactMatch(a, path)
        \/ PrefixMatch(a, path)

whitelist(a, c, reqPath) ==
    LET path == EffectivePath(c, reqPath)
    IN  \/ c.JWTAuthNoTokenStatusCode = StatusUnauthorized /\ ExactMatch(a, path)
        \/ PrefixMatch(a, path)

----------------------------------------------------------------------------
(* The token extractor: FromFirst(cookie extractor, FromAuthHeader) *)

NoCookie == [present |-> FALSE, value |-> EmptyStr]
Cookie(v) == [present |-> TRUE, value |-> v]

NoHeader == [kind |-> "absent", token |-> EmptyStr]
BadHeader == [kind |-> "malformed", token |-> EmptyStr]
Bearer(t) == [kind |-> "bearer", token |-> t]

\* The first extractor: the value of the cookie named JWTAuthCookieTokenName,
\* the empty string (and no error) when r.Cookie fails.
CookieExtractor(r) ==
    IF ~r.cookie.present THEN [token |-> EmptyStr, err |-> FALSE]
    ELSE [token |-> r.cookie.value, err |-> FALSE]

\* jwtmiddleware.FromAuthHeader: no header is no token; a header that is
\* not "Bearer {token}" is an error.
FromAuthHeader(r) ==
    CASE r.authorization.kind = "absent" -> [token |-> EmptyStr, err |-> FALSE]
      [] r.authorization.kind = "malformed" -> [token |-> EmptyStr, err |-> TRUE]
      [] OTHER -> [token |-> r.authorization.token, err |-> FALSE]

\* jwtmiddleware.FromFirst: the first extractor that fails or that returns a
\* non-empty token decides.
\* FromFirst with the two extractors in the other order.
ExtractorHeaderFirst(r) ==
    LET fromHeader == FromAuthHeader(r)
    IN  IF fromHeader.err \/ fromHeader.token # EmptyStr THEN fromHeader
        ELSE CookieExtractor(r)

Extractor(r) ==
    LET fromCookie == CookieExtractor(r)
    IN  IF fromCookie.err \/ fromCookie.token # EmptyStr THEN fromCookie
        ELSE FromAuthHeader(r)

----------------------------------------------------------------------------
(* JWTMiddleware.CheckJWT, as configured by setupJWTAuthMiddleware *)

NoCtxToken == [present |-> FALSE, tok |-> EmptyStr, valid |-> FALSE]
CtxToken(t, v) == [present |-> TRUE, tok |-> t, valid |-> v]

\* jwt.Parse(token, ValidationKeyGetter), then the middleware's comparison
\* of the token's algorithm with Options.SigningMethod.
VerifyToken(a, tok) ==
    /\ tok.alg \in {"HS256", "RS256"}
    /\ ~a.errParsingKey
    /\ MethodVerify(tok, a.validationKey)
    /\ a.signingMethod = tok.alg

\* The outcome of CheckJWT for a request: whether next is called, what was
\* extracted, what went to the verifier, the error given to ErrorHandler
\* and the token stored under JWTAuthUserProperty.  EnableAuthOnOptions
\* is not set in Options, so an OPTIONS request returns at once without error.
CheckJWT(a, r) ==
    LET ex == Extractor(r)
        base == [forward |-> FALSE, extracted |-> TRUE, verifierCalls |-> 0,
                 verified |-> EmptyStr, reason |-> "none", token |-> NoCtxToken]
    IN  CASE r.method = "OPTIONS" ->
                [base EXCEPT !.forward = TRUE, !.extracted = FALSE]
          [] ex.err \/ ex.token = EmptyStr ->
                [base EXCEPT !.reason = "NoToken"]
          [] ~VerifyToken(a, ex.token) ->
                [base EXCEPT !.verifierCalls = 1, !.verified = ex.token,
                             !.reason = "InvalidToken"]
          [] OTHER ->
                [base EXCEPT !.forward = TRUE, !.verifierCalls = 1,
                             !.verified = ex.token,
                             !.token = CtxToken(ex.token, TRUE)]

----------------------------------------------------------------------------
(* requireGroupClaim.checkGroups *)

\* util.SafeStringSlice: the strings of a collection, none for anything else.
SafeStringSlice(g) == IF g.kind = "list" THEN g.val ELSE {}

\* r.whiteListed and r.userToken are the values of the request's context
\* under whiteListed{} and Config.JWTAuthUserProperty.
\* checkGroups without the whitelisted shortcut.
checkGroupsNoWhitelist(group, r) ==
    IF ~r.userToken.present THEN FALSE
    ELSE /\ r.userToken.valid
         /\ \E s \in SafeStringSlice(r.userToken.tok.groups) : s = group

\* checkGroups accepting any group of the claim.
checkGroupsAnyGroup(group, r) ==
    IF r.whiteListed = "true" THEN TRUE
    ELSE IF ~r.userToken.present THEN FALSE
    ELSE /\ r.userToken.valid
         /\ SafeStringSlice(r.userToken.tok.groups) # {}

\* checkGroups letting a context without claims through.
checkGroupsMissingClaimsPass(group, r) ==
    IF r.whiteListed = "true" THEN TRUE
    ELSE IF ~r.userToken.present THEN TRUE
    ELSE /\ r.userToken.valid
         /\ \E s \in SafeStringSlice(r.userToken.tok.groups) : s = group

\* checkGroups of a gate that keeps the whitelisted flag in a field of its
\* own, shared by the requests in flight, instead of the request's context.
checkGroupsSharedFlag(group, r) ==
    IF \E j \in Slots : reqs[j].whiteListed = "true" THEN TRUE
    ELSE IF ~r.userToken.present THEN FALSE
    ELSE /\ r.userToken.valid
         /\ \E s \in SafeStringSlice(r.userToken.tok.groups) : s = group

checkGroups(group, r) ==
    IF r.whiteListed = "true" THEN TRUE
    ELSE IF ~r.userToken.present THEN FALSE
    ELSE /\ r.userToken.valid
         /\ \E s \in SafeStringSlice(r.userToken.tok.groups) : s = group

----------------------------------------------------------------------------
(* Requests *)

Methods == {"GET", "OPTIONS"}

Cookies == {NoCookie, Cookie(EmptyStr), Cookie(AdminHS), Cookie(Malformed)}

Headers ==
    {NoHeader, BadHeader, Bearer(AdminHS), Bearer(ViewerHS),
     Bearer(AdminEmptyKeyHS), Bearer(AdminRS), Bearer(Malformed)}

\* What a client may send.
Requests ==
    [method : Methods, path : Paths, cookie : Cookies, authorization : Headers]

\* A free goroutine slot.
Idle ==
    [phase |-> "idle", method |-> "", path |-> <<>>, cookie |-> NoCookie,
     authorization |-> NoHeader, pos |-> 0,
     whiteListed |-> "unset", userToken |-> NoCtxToken,
     resp |-> NoResponse, reached |-> {}, authBranch |-> "none",
     extracted |-> FALSE, verifierCalls |-> 0, verified |-> EmptyStr,
     groupVerdict |-> "none", reason |-> "none",
     panicking |-> FALSE, faultAt |-> "none",
     statsdObs |-> <<>>, promObs |-> <<>>, promLatencies |-> 0]

\* A request entering the chain at its outermost gate, with a fresh context.
NewRequest(in) ==
    [Idle EXCEPT !.phase = "fwd", !.pos = 1, !.method = in.method,
                 !.path = in.path, !.cookie = in.cookie,
                 !.authorization = in.authorization]

SetMax(S) == CHOOSE x \in S : \A y \in S : y <= x

\* A gate below frame k that runs code when the call to next returns: the
\* deferred functions of the telemetry gates, and recovery's when panicking.
HasDeferred(chain, k, r) ==
    \/ chain[k] = "statsd"
    \/ chain[k] = "prometheus"
    \/ chain[k] = "recovery" /\ r.panicking

\* The request after frame k has returned (or panicked): control is in the
\* nearest enclosing frame with deferred code, or the chain has returned.
Return(r, k) ==
    LET D == {j \in 1..(k - 1) : HasDeferred(Chain, j, r)}
    IN  IF D = {} THEN [r EXCEPT !.phase = "done", !.pos = 0]
        ELSE [r EXCEPT !.phase = "unwind", !.pos = SetMax(D)]

\* next(w, r)
CallNext(r) == [r EXCEPT !.pos = r.pos + 1]

At(i, gate) == reqs[i].phase = "fwd" /\ Chain[reqs[i].pos] = gate

Unwinding(i, gate) == reqs[i].phase = "unwind" /\ Chain[reqs[i].pos] = gate

Update(i, r) ==
    /\ reqs' = [reqs EXCEPT ![i] = r]
    /\ UNCHANGED <<Config, authGate>>

----------------------------------------------------------------------------
(* The gates *)

\* The serving layer hands a new request to the chain in the lowest free slot.
Accept(i, in) ==
    /\ reqs[i].phase = "idle"
    /\ \A j \in 1..(i - 1) : reqs[j].phase # "idle"
    /\ Update(i, NewRequest(in))

\* One request at a time.
Arrive ==
    /\ \A j \in Slots : reqs[j].phase = "idle"
    /\ \E i \in Slots, in \in Requests : Accept(i, in)

\* gzip, the verbose logger and the New Relic gate call next.
PassThroughServeHTTP(i) ==
    /\ \/ At(i, "gzip") \/ At(i, "logger") \/ At(i, "newrelic")
    /\ Update(i, CallNext(reqs[i]))

\* statsdMiddleware.ServeHTTP: defers the observation, calls next.
StatsdServeHTTP(i) ==
    /\ At(i, "statsd")
    /\ Update(i, CallNext(reqs[i]))

\* The deferred function of statsdMiddleware.ServeHTTP.
StatsdDeferred(i) ==
    /\ Unwinding(i, "statsd")
    /\ LET r == reqs[i]
       IN  Update(i, Return([r EXCEPT !.statsdObs = Append(@, r.resp.status)],
                            r.pos))

\* prometheusMiddleware.ServeHTTP wrapping the scrape path like any other.
PrometheusServeHTTPNoExempt(i) ==
    /\ At(i, "prometheus")
    /\ Update(i, CallNext(reqs[i]))

\* prometheusMiddleware.ServeHTTP
PrometheusServeHTTP(i) ==
    /\ At(i, "prometheus")
    /\ LET r == reqs[i]
       IN  IF r.path = ScrapePath
           THEN Update(i, Return([r EXCEPT !.resp =
                                     [NoResponse EXCEPT !.written = TRUE,
                                                        !.status = 200,
                                                        !.body = "metrics"]],
                                 r.pos))
           ELSE Update(i, CallNext(r))

\* The deferred function of prometheusMiddleware.ServeHTTP.
PrometheusDeferred(i) ==
    /\ Unwinding(i, "prometheus")
    /\ LET r == reqs[i]
       IN  Update(i, Return([r EXCEPT !.promObs = Append(@, r.resp.status),
                                      !.promLatencies = @ + 1],
                            r.pos))

\* cors.ServeHTTP: answers a preflight request itself, else calls next.
CorsServeHTTP(i) ==
    /\ At(i, "cors")
    /\ LET r == reqs[i]
       IN  \/ Update(i, CallNext(r))
           \/ /\ r.method = "OPTIONS"
              /\ Update(i, Return([r EXCEPT !.resp =
                                      [NoResponse EXCEPT !.written = TRUE,
                                                         !.status = 200]],
                                  r.pos))

\* auth.ServeHTTP also verifying the token of a whitelisted request, and
\* keeping its claims when it has a valid one.
AuthServeHTTPVerifyWhitelisted(i) ==
    /\ At(i, "auth")
    /\ LET r == reqs[i]
           out == CheckJWT(authGate, r)
           checked == [r EXCEPT !.authBranch = "jwt",
                                !.extracted = out.extracted,
                                !.verifierCalls = @ + out.verifierCalls,
                                !.verified = out.verified,
                                !.reason = out.reason,
                                !.userToken = out.token]
       IN  IF whitelist(authGate, Config, r.path)
           THEN Update(i, CallNext([checked EXCEPT !.whiteListed = "true",
                                                   !.authBranch = "bypass",
                                                   !.reason = "none"]))
           ELSE IF out.forward
                THEN Update(i, CallNext(checked))
                ELSE Update(i, Return([checked EXCEPT !.resp =
                                          jwtErrorHandler(Config, out.reason)],
                                      r.pos))

\* auth.ServeHTTP
AuthServeHTTP(i) ==
    /\ At(i, "auth")
    /\ LET r == reqs[i]
           out == CheckJWT(authGate, r)
       IN  IF whitelist(authGate, Config, r.path)
           THEN Update(i, CallNext([r EXCEPT !.whiteListed = "true",
                                             !.authBranch = "bypass"]))
           ELSE LET checked == [r EXCEPT !.authBranch = "jwt",
                                         !.extracted = out.extracted,
                                         !.verifierCalls = @ + out.verifierCalls,
                                         !.verified = out.verified,
                                         !.reason = out.reason,
                                         !.userToken = out.token]
                IN  IF out.forward
                    THEN Update(i, CallNext(checked))
                    ELSE Update(i, Return([checked EXCEPT !.resp =
                                              jwtErrorHandler(Config, out.reason)],
                                          r.pos))

\* setupJWTRequireGroupClaimMiddleware
setupJWTRequireGroupClaimMiddleware(c) == [Group |-> c.JWTAuthRequireGroupClaim]

\* requireGroupClaim.ServeHTTP marking the requests it forwards as
\* whitelisted.
RequireGroupClaimServeHTTPMarking(i) ==
    /\ At(i, "group")
    /\ LET r == reqs[i]
           c == setupJWTRequireGroupClaimMiddleware(Config)
       IN  IF ~checkGroups(c.Group, r)
           THEN Update(i, Return([r EXCEPT !.groupVerdict = "reject",
                                           !.reason = "NotInRequiredGroup",
                                           !.resp = jwtErrorHandler(Config,
                                                       "NotInRequiredGroup")],
                                 r.pos))
           ELSE Update(i, CallNext([r EXCEPT !.groupVerdict = "forward",
                                             !.whiteListed = "true"]))

\* requireGroupClaim.ServeHTTP
RequireGroupClaimServeHTTP(i) ==
    /\ At(i, "group")
    /\ LET r == reqs[i]
           c == setupJWTRequireGroupClaimMiddleware(Config)
       IN  IF ~checkGroups(c.Group, r)
           THEN Update(i, Return([r EXCEPT !.groupVerdict = "reject",
                                           !.reason = "NotInRequiredGroup",
                                           !.resp = jwtErrorHandler(Config,
                                                       "NotInRequiredGroup")],
                                 r.pos))
           ELSE Update(i, CallNext([r EXCEPT !.groupVerdict = "forward"]))

\* negroni.Static.ServeHTTP: serves a GET under the prefix whose file
\* exists, else calls next.
StaticServeHTTP(i) ==
    /\ At(i, "static")
    /\ LET r == [reqs[i] EXCEPT !.reached = @ \cup {"static"}]
       IN  \/ Update(i, CallNext(r))
           \/ /\ r.method = "GET"
              /\ HasPrefix(r.path, Config.WebPrefix)
              /\ Update(i, Return([r EXCEPT !.resp =
                                      [NoResponse EXCEPT !.written = TRUE,
                                                         !.status = 200,
                                                         !.body = "file"]],
                                  r.pos))

\* negroni.Recovery.ServeHTTP: defers the recover, calls next.
RecoveryServeHTTP(i) ==
    /\ At(i, "recovery")
    /\ Update(i, CallNext(reqs[i]))

\* The deferred function of negroni.Recovery.ServeHTTP, when a frame inside
\* it panicked: the panic stops here and the response is a 500.
RecoveryDeferred(i) ==
    /\ Unwinding(i, "recovery")
    /\ LET r == reqs[i]
       IN  Update(i, Return([r EXCEPT !.panicking = FALSE,
                                      !.resp =
                                      [NoResponse EXCEPT !.written = TRUE,
                                                         !.status = 500,
                                                         !.body = "PANIC"]],
                            r.pos))

\* The application handler behind http.StripPrefix (and pprof): a path
\* outside the prefix is a 404 of StripPrefix.
HandlerServeHTTP(i) ==
    /\ At(i, "handler")
    /\ LET r == reqs[i]
       IN  IF Config.WebPrefix # <<>> /\ ~HasPrefix(r.path, Config.WebPrefix)
           THEN Update(i, Return([r EXCEPT !.resp =
                                     [NoResponse EXCEPT !.written = TRUE,
                                                        !.status = 404,
                                                        !.body = "not found"]],
                                 r.pos))
           ELSE Update(i, Return([r EXCEPT !.reached = @ \cup {"handler"},
                                           !.resp =
                                     [NoResponse EXCEPT !.written = TRUE,
                                                        !.status = 200,
                                                        !.body = "ok"]],
                                 r.pos))

\* The response is sent and the goroutine ends: the request's state is gone.
Finish(i) ==
    /\ reqs[i].phase = "done"
    /\ Update(i, Idle)

----------------------------------------------------------------------------
(* The pipeline, one request at a time *)

Init ==
    /\ Config \in Configs
    /\ authGate = IF Config.JWTAuthEnabled THEN setupJWTAuthMiddleware(Config)
                  ELSE NoAuthGate
    /\ reqs = [i \in Slots |-> Idle]

Serve ==
    \E i \in Slots :
        \/ PassThroughServeHTTP(i)
        \/ StatsdServeHTTP(i)
        \/ StatsdDeferred(i)
        \/ PrometheusServeHTTP(i)
        \/ PrometheusDeferred(i)
        \/ CorsServeHTTP(i)
        \/ AuthServeHTTP(i)
        \/ RequireGroupClaimServeHTTP(i)
        \/ StaticServeHTTP(i)
        \/ RecoveryServeHTTP(i)
        \/ HandlerServeHTTP(i)
        \/ Finish(i)

Next == Arrive \/ Serve

Spec == Init /\ [][Next]_vars

----------------------------------------------------------------------------
(* Faults: a gate panics while it serves a request *)

\* The gate the request is in panics: the panic travels up the goroutine's
\* stack, through the deferred functions of the frames it passes.
Panic(i) ==
    /\ reqs[i].phase = "fwd"
    /\ LET r == reqs[i]
       IN  Update(i, Return([r EXCEPT !.panicking = TRUE,
                                      !.faultAt = Chain[r.pos]],
                            r.pos))

\* Every combination of the optional gates, with and without the two
\* authentication gates.
ChainConfigs ==
    {WithFlags([BaseConfig EXCEPT !.JWTAuthEnabled = a,
                                  !.JWTAuthRequireGroupClaim = g,
                                  !.JWTAuthNoTokenStatusCode = st],
               gz, lg, sd, pm, nr, co, pp) :
        a \in BOOLEAN, g \in {"", "admin"},
        st \in {StatusUnauthorized, StatusTemporaryRedirect},
        gz \in BOOLEAN, lg \in BOOLEAN,
        sd \in BOOLEAN, pm \in BOOLEAN, nr \in BOOLEAN, co \in BOOLEAN,
        pp \in BOOLEAN}

ProbeRequests ==
    [method : {"GET"}, path : {<<>>, ScrapePath}, cookie : {NoCookie},
     authorization : {NoHeader, Bearer(AdminHS), Bearer(ViewerHS)}]

ArriveProbe ==
    /\ \A j \in Slots : reqs[j].phase = "idle"
    /\ \E i \in Slots, in \in ProbeRequests : Accept(i, in)

InitChain ==
    /\ Config \in ChainConfigs
    /\ authGate = IF Config.JWTAuthEnabled THEN setupJWTAuthMiddleware(Config)
                  ELSE NoAuthGate
    /\ reqs = [i \in Slots |-> Idle]

NextChain ==
    \/ ArriveProbe
    \/ Serve
    \/ \E i \in Slots : Panic(i)
    \/ \E i \in Slots : RecoveryDeferred(i)

SpecChain == InitChain /\ [][NextChain]_vars

----------------------------------------------------------------------------
(* The group gate on its own: a request handed to it with any context *)

GroupTokens ==
    {AdminHS, ViewerHS, NoGroupsHS, NullGroupsHS, StringGroupsHS,
     Tok("HS256", Bytes("s"), ListGroups({"admin", "viewer"})),
     Tok("HS256", Bytes("s"), ListGroups({}))}

Contexts ==
    [whiteListed : {"unset", "true", "false"},
     userToken : {NoCtxToken} \cup {CtxToken(t, v) : t \in GroupTokens, v \in BOOLEAN}]

GroupConfigs ==
    {[BaseConfig EXCEPT !.JWTAuthEnabled = a,
                        !.JWTAuthRequireGroupClaim = g,
                        !.JWTAuthNoTokenStatusCode = st] :
        a \in BOOLEAN, g \in {"admin", "viewer"}, st \in NoTokenStatusCodes}

\* The gates before requireGroupClaim called next with this context.
EnterGroupGate(i, ctx) ==
    /\ reqs[i].phase = "idle"
    /\ \A j \in Slots : reqs[j].phase = "idle"
    /\ \A j \in 1..(i - 1) : reqs[j].phase # "idle"
    /\ Update(i, [NewRequest([method |-> "GET", path |-> <<>>,
                              cookie |-> NoCookie, authorization |-> NoHeader])
                      EXCEPT !.pos = IndexOf(Chain, "group"),
                             !.whiteListed = ctx.whiteListed,
                             !.userToken = ctx.userToken])

ArriveAtGroupGate == \E i \in Slots, ctx \in Contexts : EnterGroupGate(i, ctx)

InitGroup ==
    /\ Config \in GroupConfigs
    /\ authGate = IF Config.JWTAuthEnabled THEN setupJWTAuthMiddleware(Config)
                  ELSE NoAuthGate
    /\ reqs = [i \in Slots |-> Idle]

NextGroup ==
    \/ ArriveAtGroupGate
    \/ \E i \in Slots :
          \/ RequireGroupClaimServeHTTP(i)
          \/ StaticServeHTTP(i)
          \/ RecoveryServeHTTP(i)
          \/ HandlerServeHTTP(i)
          \/ Finish(i)

SpecGroup == InitGroup /\ [][NextGroup]_vars

----------------------------------------------------------------------------
(* Requests served concurrently, one goroutine per slot *)

ConcurrentConfigs ==
    {[BaseConfig EXCEPT !.JWTAuthRequireGroupClaim = "admin",
                        !.JWTAuthNoTokenStatusCode = st] :
        st \in NoTokenStatusCodes}
    \cup {[BaseConfig EXCEPT !.JWTAuthRequireGroupClaim = "admin",
                             !.JWTAuthPrefixWhitelistPaths = {<<"b">>}]}
    \cup GateConfigs

ConcurrentRequests ==
    [method : {"GET"}, path : {<<>>}, cookie : {NoCookie},
     authorization : {NoHeader, Bearer(Malformed), Bearer(ViewerHS),
                      Bearer(AdminHS)}]
    \cup [method : {"GET"}, path : {<<"b">>}, cookie : {NoCookie},
          authorization : {NoHeader}]
    \cup [method : {"OPTIONS"}, path : {<<>>}, cookie : {NoCookie},
          authorization : {NoHeader}]

ArriveConcurrent == \E i \in Slots, in \in ConcurrentRequests : Accept(i, in)

InitConcurrent ==
    /\ Config \in ConcurrentConfigs
    /\ authGate = IF Config.JWTAuthEnabled THEN setupJWTAuthMiddleware(Config)
                  ELSE NoAuthGate
    /\ reqs = [i \in Slots |-> Idle]

NextConcurrent == ArriveConcurrent \/ Serve

SpecConcurrent == InitConcurrent /\ [][NextConcurrent]_vars

----------------------------------------------------------------------------
(* Properties *)

\* p is an initial segment of s.
StartsWith(s, p) == \E n \in 0..Len(s) : SubSeq(s, 1, n) = p

\* The request path with the configured WebPrefix stripped.
Stripped(path) ==
    IF \E k \in 1..(Len(path) + 1) :
            Config.WebPrefix \o SubSeq(path, k, Len(path)) = path
    THEN LET k == CHOOSE k \in 1..(Len(path) + 1) :
                      Config.WebPrefix \o SubSeq(path, k, Len(path)) = path
         IN  SubSeq(path, k, Len(path))
    ELSE path

MatchesPrefixRule(i) ==
    \E p \in Config.JWTAuthPrefixWhitelistPaths :
        p # <<>> /\ StartsWith(Stripped(reqs[i].path), p)

MatchesExactRule(i) == Stripped(reqs[i].path) \in Config.JWTAuthExactWhitelistPaths

PassedAuth(i) == reqs[i].authBranch # "none"

Rejected(i) == reqs[i].reason # "none"

TokenLess(i) == ~reqs[i].cookie.present /\ reqs[i].authorization.kind = "absent"

\* The group gate has served the request.
PassedGroupGate(i) ==
    /\ reqs[i].phase # "idle"
    /\ reqs[i].phase = "fwd" => reqs[i].pos > IndexOf(Chain, "group")

\* C1: with JWTAuthEnabled, a request reaches the static-file server or the
\* application handler only if the auth gate whitelisted it or verified a
\* token for it, and a request the auth gate rejected reaches neither.
C1_OnlyAdmittedReachStaticOrHandler ==
    Config.JWTAuthEnabled =>
        \A i \in Slots :
            /\ reqs[i].reached # {} =>
                  \/ reqs[i].whiteListed = "true"
                  \/ reqs[i].verifierCalls = 1 /\ reqs[i].userToken.present
            /\ reqs[i].reason \in {"NoToken", "InvalidToken"} => reqs[i].reached = {}

\* C2: a request whose effective path starts with a non-empty prefix rule is
\* forwarded with whitelisted = true, without token extraction and without a
\* call of the verifier, whatever cookie or header it carries; and no request
\* is whitelisted by an empty prefix rule (a whitelisted request matches a
\* non-empty prefix rule, or an exact rule under status 401).
C2_PrefixRuleBypassesVerifier ==
    \A i \in Slots :
        PassedAuth(i) =>
            /\ MatchesPrefixRule(i) =>
                  /\ reqs[i].authBranch = "bypass"
                  /\ reqs[i].whiteListed = "true"
                  /\ ~reqs[i].extracted
                  /\ reqs[i].verifierCalls = 0
                  /\ reqs[i].reason = "none"
            /\ reqs[i].whiteListed = "true" =>
                  \/ MatchesPrefixRule(i)
                  \/ /\ Config.JWTAuthNoTokenStatusCode = StatusUnauthorized
                     /\ MatchesExactRule(i)

\* A request carrying a cookie and a bearer header was whitelisted by a
\* non-empty prefix rule, beside an empty rule, and reached the handler.
C2_Witness ==
    \E i \in Slots :
        /\ MatchesPrefixRule(i)
        /\ <<>> \in Config.JWTAuthPrefixWhitelistPaths
        /\ reqs[i].cookie.present
        /\ reqs[i].authorization.kind = "bearer"
        /\ reqs[i].whiteListed = "true"
        /\ "handler" \in reqs[i].reached

UnauthorizedResponse(i) ==
    /\ reqs[i].resp.status = StatusUnauthorized
    /\ reqs[i].resp.wwwAuthenticate = <<"Bearer realm=", Config.JWTAuthNoTokenRedirectURL>>
    /\ reqs[i].resp.body = "Not authorized"
    /\ reqs[i].resp.location = ""

RedirectResponse(i, code) ==
    /\ reqs[i].resp.status = code
    /\ reqs[i].resp.location = Config.JWTAuthNoTokenRedirectURL
    /\ reqs[i].resp.wwwAuthenticate = <<>>

\* C4 as claimed: a rejection under any redirect status is a redirect to
\* JWTAuthNoTokenRedirectURL with that status, and a 401 with the
\* WWW-Authenticate header and body "Not authorized" only otherwise.
C4_RedirectForEveryRedirectStatus ==
    \A i \in Slots :
        Rejected(i) =>
            IF Config.JWTAuthNoTokenStatusCode \in RedirectStatusCodes
            THEN RedirectResponse(i, Config.JWTAuthNoTokenStatusCode)
            ELSE UnauthorizedResponse(i)

\* C4 as amended: a rejection is a 307 redirect to JWTAuthNoTokenRedirectURL
\* exactly when the configured status is 307; under every other status,
\* another redirect status included, it is the 401 with the WWW-Authenticate
\* header and body "Not authorized".
C4_RedirectOnlyFor307 ==
    \A i \in Slots :
        Rejected(i) =>
            IF Config.JWTAuthNoTokenStatusCode = StatusTemporaryRedirect
            THEN RedirectResponse(i, StatusTemporaryRedirect)
            ELSE UnauthorizedResponse(i)

\* A request was rejected with a 401 under the configured redirect status 302.
C4_Witness ==
    \E i \in Slots :
        /\ Rejected(i)
        /\ Config.JWTAuthNoTokenStatusCode \in RedirectStatusCodes
        /\ Config.JWTAuthNoTokenStatusCode # StatusTemporaryRedirect
        /\ reqs[i].resp.status = StatusUnauthorized

\* C5 as claimed: recovery is the outermost gate, so a request during which
\* any gate or the handler panicked ends with the 500 of recovery and the
\* panic does not leave the chain.
C5_RecoveryCatchesEveryFault ==
    \A i \in Slots :
        reqs[i].phase = "done" /\ reqs[i].faultAt # "none" =>
            /\ IndexOf(Chain, "recovery") = 1
            /\ ~reqs[i].panicking
            /\ reqs[i].resp.status = 500

\* C6 as claimed: with a cookie and a bearer header carrying different
\* tokens the verifier gets the cookie's, and it gets the header's only when
\* the cookie is absent.
C6_CookieTokenVerified ==
    \A i \in Slots :
        reqs[i].authBranch = "jwt" /\ reqs[i].verifierCalls = 1
        /\ reqs[i].authorization.kind = "bearer"
        /\ reqs[i].cookie.value # reqs[i].authorization.token =>
            /\ reqs[i].cookie.present => reqs[i].verified = reqs[i].cookie.value
            /\ reqs[i].verified = reqs[i].authorization.token => ~reqs[i].cookie.present

\* C6 as amended: a non-whitelisted request (other than OPTIONS) whose cookie
\* has a non-empty value has that value verified, whatever the header; the
\* header's token is verified only when the cookie is absent or empty.
C6_NonEmptyCookieTokenVerified ==
    \A i \in Slots :
        reqs[i].authBranch = "jwt" /\ reqs[i].method # "OPTIONS" =>
            /\ reqs[i].cookie.present /\ reqs[i].cookie.value # EmptyStr =>
                  reqs[i].verifierCalls = 1 /\ reqs[i].verified = reqs[i].cookie.value
            /\ reqs[i].verifierCalls = 1 /\ reqs[i].verified # reqs[i].cookie.value =>
                  /\ ~reqs[i].cookie.present \/ reqs[i].cookie.value = EmptyStr
                  /\ reqs[i].authorization.kind = "bearer"
                  /\ reqs[i].verified = reqs[i].authorization.token

\* The cookie's token was verified although the header carried another one.
C6_Witness ==
    \E i \in Slots :
        /\ reqs[i].authBranch = "jwt"
        /\ reqs[i].cookie = Cookie(AdminHS)
        /\ reqs[i].authorization = Bearer(ViewerHS)
        /\ reqs[i].verifierCalls = 1
        /\ reqs[i].verified = AdminHS
        /\ reqs[i].userToken.present

\* The set of strings a groups claim stands for.
GroupSet(g) == IF g.kind = "list" THEN g.val ELSE {}

RequiredGroup == Config.JWTAuthRequireGroupClaim

\* C7: the group gate forwards every request whose context has whitelisted =
\* true, whatever the required group and whether or not claims are present.
C7_WhitelistedAlwaysAuthorized ==
    \A i \in Slots :
        reqs[i].whiteListed = "true" /\ PassedGroupGate(i) =>
            /\ reqs[i].groupVerdict = "forward"
            /\ reqs[i].reason = "none"

\* Whitelisted requests were forwarded with claims lacking the required
\* group in their context.
C7_Witness ==
    \E i \in Slots :
        /\ reqs[i].whiteListed = "true"
        /\ reqs[i].userToken.present
        /\ RequiredGroup \notin GroupSet(reqs[i].userToken.tok.groups)
        /\ reqs[i].groupVerdict = "forward"
        /\ "handler" \in reqs[i].reached

\* C8: a request that is not whitelisted and has verified claims is
\* forwarded by the group gate iff the required group is in its groups claim
\* read as a set of strings (empty when the claim is absent, null or no
\* collection); otherwise it is rejected through jwtErrorHandler, without a
\* panic.
C8_ForwardIffGroupMember ==
    \A i \in Slots :
        (/\ reqs[i].whiteListed # "true"
         /\ reqs[i].userToken.present
         /\ reqs[i].userToken.valid
         /\ PassedGroupGate(i)) =>
            IF RequiredGroup \in GroupSet(reqs[i].userToken.tok.groups)
            THEN reqs[i].groupVerdict = "forward" /\ reqs[i].reason = "none"
            ELSE /\ reqs[i].groupVerdict = "reject"
                 /\ reqs[i].reason = "NotInRequiredGroup"
                 /\ reqs[i].resp.status \in {StatusUnauthorized, StatusTemporaryRedirect}
                 /\ ~reqs[i].panicking
                 /\ reqs[i].reached = {}

\* A request whose groups claim is the bare string of the required group
\* was rejected.
C8_Witness ==
    \E i \in Slots :
        /\ reqs[i].whiteListed # "true"
        /\ reqs[i].userToken = CtxToken(StringGroupsHS, TRUE)
        /\ RequiredGroup = "admin"
        /\ reqs[i].groupVerdict = "reject"
        /\ reqs[i].resp.written

C10_UnknownMethodVerifiesWithSecret ==
    \A i \in Slots :
        (/\ Config.JWTAuthSigningMethod \notin {"HS256", "RS256"}
         /\ reqs[i].verifierCalls = 1
         /\ reqs[i].verified.alg = "HS256"
         /\ reqs[i].verified.key = Bytes(Config.JWTAuthSecret)) =>
            /\ authGate.signingMethod = "HS256"
            /\ authGate.validationKey = Bytes(Config.JWTAuthSecret)
            /\ reqs[i].userToken.present
            /\ reqs[i].reason = "none"


\* The chain has returned for the request, and no gate panicked.
Completed(i) == reqs[i].phase = "done" /\ reqs[i].faultAt = "none"

\* C11: for every request the chain has answered, forwarded or rejected, an
\* enabled statsd gate has recorded exactly one observation, with the status
\* of the response, and so has an enabled Prometheus gate (counter and
\* latency) unless the path is the scrape path, for which it records none;
\* no gate ever holds more than one observation of a request.
C11_OneObservationWithFinalStatus ==
    \A i \in Slots :
        /\ Len(reqs[i].statsdObs) <= 1
        /\ Len(reqs[i].promObs) <= 1
        /\ reqs[i].promLatencies = Len(reqs[i].promObs)
        /\ Completed(i) =>
              /\ Config.StatsdEnabled => reqs[i].statsdObs = <<reqs[i].resp.status>>
              /\ ~Config.StatsdEnabled => reqs[i].statsdObs = <<>>
              /\ Config.PrometheusEnabled /\ reqs[i].path # ScrapePath =>
                    reqs[i].promObs = <<reqs[i].resp.status>>
              /\ ~Config.PrometheusEnabled \/ reqs[i].path = ScrapePath =>
                    reqs[i].promObs = <<>>
              /\ reqs[i].resp.written

\* A request the auth gate rejected was observed once, with the 401, by both
\* telemetry gates.
C11_Witness ==
    \E i \in Slots :
        /\ Completed(i)
        /\ reqs[i].reason = "NoToken"
        /\ reqs[i].statsdObs = <<StatusUnauthorized>>
        /\ reqs[i].promObs = <<StatusUnauthorized>>
        /\ reqs[i].promLatencies = 1

\* C12 as claimed: the outcome of parsing JWTAuthSecret is the one captured
\* when the auth gate was built, and when it is an error under RS256 the auth
\* gate verifies no token and forwards no request that is not whitelisted,
\* whatever the sequence of requests.
C12_ParseFailureForwardsNothing ==
    /\ Config.JWTAuthEnabled =>
          authGate.errParsingKey =
              (/\ Config.JWTAuthSigningMethod = "RS256"
               /\ ParseRSAPublicKeyFromPEM(Bytes(Config.JWTAuthSecret)).err)
    /\ \A i \in Slots :
          (/\ authGate.errParsingKey
           /\ reqs[i].authBranch = "jwt") =>
              /\ ~reqs[i].userToken.present
              /\ reqs[i].reason \in {"NoToken", "InvalidToken"}
              /\ reqs[i].reached = {}

\* C13: a request that reaches the group gate with a context that is not
\* whitelisted and holds no claims is rejected through jwtErrorHandler with
\* the rejection response of the configuration; it is not forwarded and no
\* panic is raised.
C13_NoClaimsIsUnauthenticated ==
    \A i \in Slots :
        (/\ reqs[i].whiteListed # "true"
         /\ ~reqs[i].userToken.present
         /\ PassedGroupGate(i)) =>
            /\ reqs[i].groupVerdict = "reject"
            /\ reqs[i].reason = "NotInRequiredGroup"
            /\ reqs[i].resp = jwtErrorHandler(Config, "NotInRequiredGroup")
            /\ IF Config.JWTAuthNoTokenStatusCode = StatusTemporaryRedirect
               THEN RedirectResponse(i, StatusTemporaryRedirect)
               ELSE UnauthorizedResponse(i)
            /\ ~reqs[i].panicking
            /\ reqs[i].faultAt = "none"
            /\ reqs[i].reached = {}

\* A request with whitelisted = false and no claims in its context was
\* rejected by the group gate with the 401.
C13_Witness ==
    \E i \in Slots :
        /\ reqs[i].whiteListed = "false"
        /\ ~reqs[i].userToken.present
        /\ reqs[i].groupVerdict = "reject"
        /\ reqs[i].phase = "done"
        /\ reqs[i].resp.status = StatusUnauthorized

BothAuthGates == Config.JWTAuthEnabled /\ Config.JWTAuthRequireGroupClaim # ""

\* C14: with both gates enabled the group gate is after the auth gate in the
\* chain, whatever the other gates; it gives a verdict only on requests the
\* auth gate has served, and with the context the auth gate left: a request
\* the auth gate accepted with a token whose groups hold the required group
\* is forwarded by the group gate.
C14_GroupGateAfterAuthGate ==
    BothAuthGates =>
        /\ 0 < IndexOf(Chain, "auth")
        /\ IndexOf(Chain, "auth") < IndexOf(Chain, "group")
        /\ \A i \in Slots :
              /\ reqs[i].groupVerdict # "none" => reqs[i].authBranch # "none"
              /\ (/\ reqs[i].authBranch = "jwt"
                  /\ reqs[i].userToken.present
                  /\ RequiredGroup \in GroupSet(reqs[i].userToken.tok.groups)
                  /\ reqs[i].faultAt = "none"
                  /\ PassedGroupGate(i)) =>
                    /\ reqs[i].groupVerdict = "forward"
                    /\ reqs[i].reason = "none"

\* With every optional gate enabled, a request with a verified admin token
\* passed the auth gate, then the group gate, and reached the handler.
C14_Witness ==
    \E i \in Slots :
        /\ BothAuthGates
        /\ Config.MiddlewareGzipEnabled /\ Config.StatsdEnabled
        /\ Config.PrometheusEnabled /\ Config.CORSEnabled
        /\ reqs[i].authBranch = "jwt"
        /\ reqs[i].userToken = CtxToken(AdminHS, TRUE)
        /\ reqs[i].groupVerdict = "forward"
        /\ "handler" \in reqs[i].reached

\* Gate a is before (outside) gate b whenever both are in the chain.
Outside(a, b) ==
    IndexOf(Chain, a) > 0 /\ IndexOf(Chain, b) > 0 =>
        IndexOf(Chain, a) < IndexOf(Chain, b)

\* C15: in every configuration compression and the verbose logger are
\* before the telemetry gates and the telemetry gates are before the auth gate
\* and the group gate; every request one of these two rejected has been
\* observed by each enabled telemetry gate, once, with the status of the
\* rejection (the 401, or the 307 of the redirect).
C15_TelemetryWrapsAuthGates ==
    /\ \A t \in {"statsd", "prometheus"} :
          /\ Outside("gzip", t) /\ Outside("logger", t)
          /\ Outside(t, "auth") /\ Outside(t, "group")
    /\ \A i \in Slots :
          Rejected(i) /\ reqs[i].phase = "done" =>
              /\ reqs[i].resp = jwtErrorHandler(Config, reqs[i].reason)
              /\ reqs[i].resp.status \in {StatusUnauthorized, StatusTemporaryRedirect}
              /\ Config.StatsdEnabled =>
                    reqs[i].statsdObs = <<reqs[i].resp.status>>
              /\ Config.PrometheusEnabled =>
                    reqs[i].promObs = <<reqs[i].resp.status>>

\* Behind compression and the logger, both telemetry gates observed the 307
\* of a request the group gate rejected.
C15_Witness ==
    \E i \in Slots :
        /\ Config.MiddlewareGzipEnabled /\ Config.MiddlewareVerboseLoggerEnabled
        /\ reqs[i].reason = "NotInRequiredGroup"
        /\ reqs[i].phase = "done"
        /\ reqs[i].statsdObs = <<StatusTemporaryRedirect>>
        /\ reqs[i].promObs = <<StatusTemporaryRedirect>>

\* Neither whitelisted nor holding claims.
Unauthenticated(i) == reqs[i].whiteListed # "true" /\ ~reqs[i].userToken.present

\* C16: with several requests in flight, in any interleaving, the context of
\* a request is what the auth gate made of that request alone (whitelisted
\* from its path, claims from its token), the verdict of the group gate is
\* a function of that context alone, and an unauthenticated request the group
\* gate has served is never forwarded, whatever the other requests are.
C16_ContextIsPerRequest ==
    \A i \in Slots :
        /\ PassedAuth(i) =>
              /\ reqs[i].whiteListed =
                    (IF whitelist(authGate, Config, reqs[i].path)
                     THEN "true" ELSE "unset")
              /\ reqs[i].userToken =
                    (IF reqs[i].authBranch = "jwt"
                     THEN CheckJWT(authGate, reqs[i]).token ELSE NoCtxToken)
        /\ reqs[i].groupVerdict # "none" =>
              (reqs[i].groupVerdict = "forward") =
                  (\/ reqs[i].whiteListed = "true"
                   \/ /\ reqs[i].userToken.present
                      /\ reqs[i].userToken.valid
                      /\ RequiredGroup \in GroupSet(reqs[i].userToken.tok.groups))
        /\ (/\ PassedAuth(i)
            /\ Unauthenticated(i)
            /\ reqs[i].method # "OPTIONS" \/ BothAuthGates) =>
              reqs[i].reached = {}

\* While a whitelisted request was in flight, forwarded by the group gate, an
\* unauthenticated request in flight was rejected by the group gate.
C16_Witness ==
    \E i, j \in Slots :
        /\ reqs[i].whiteListed = "true"
        /\ reqs[i].groupVerdict = "forward"
        /\ reqs[i].phase = "fwd"
        /\ Unauthenticated(j)
        /\ reqs[j].groupVerdict = "reject"
        /\ reqs[j].reached = {}

\* C17: before the auth gate has served a request its context has neither
\* field; once the auth gate has served it, no step of any later gate (group
\* gate, static server, recovery, handler) or of a returning gate changes
\* whitelisted or the claims for as long as the request lives.
C17_ContextWriteOnce ==
    [][\A i \in Slots :
          /\ ~PassedAuth(i) =>
                reqs[i].whiteListed = "unset" /\ reqs[i].userToken = NoCtxToken
          /\ PassedAuth(i) /\ reqs'[i].phase # "idle" =>
                /\ reqs'[i].whiteListed = reqs[i].whiteListed
                /\ reqs'[i].userToken = reqs[i].userToken]_vars

\* A request with claims in its context was forwarded by the group gate and
\* served by the handler, and still has them.
C17_Witness ==
    \E i \in Slots :
        /\ reqs[i].authBranch = "jwt"
        /\ reqs[i].userToken = CtxToken(AdminHS, TRUE)
        /\ reqs[i].whiteListed = "unset"
        /\ reqs[i].groupVerdict = "forward"
        /\ reqs[i].reached = {"static", "handler"}
        /\ reqs[i].phase = "done"

GroupGateAlone == ~Config.JWTAuthEnabled /\ Config.JWTAuthRequireGroupClaim # ""

C19_ScrapePathServedByPrometheusGate ==
    \A i \in Slots :
        (/\ Config.PrometheusEnabled
         /\ reqs[i].phase # "idle"
         /\ reqs[i].path = ScrapePath) =>
            /\ reqs[i].phase = "fwd" => reqs[i].pos <= IndexOf(Chain, "prometheus")
            /\ reqs[i].authBranch = "none"
            /\ reqs[i].groupVerdict = "none"
            /\ reqs[i].reached = {}
            /\ reqs[i].reason = "none"
            /\ reqs[i].phase = "done" =>
                  /\ reqs[i].resp.status = 200
                  /\ reqs[i].resp.body = "metrics"
                  /\ reqs[i].promObs = <<>>
                  /\ Config.StatsdEnabled => reqs[i].statsdObs = <<200>>

\* Under JWTAuthEnabled with no whitelist rule, a token-less request for the
\* scrape path was served the metrics, and the statsd gate recorded it.
C19_Witness ==
    \E i \in Slots :
        /\ Config.PrometheusEnabled /\ Config.StatsdEnabled
        /\ Config.JWTAuthEnabled
        /\ Config.JWTAuthPrefixWhitelistPaths = {}
        /\ Config.JWTAuthExactWhitelistPaths = {}
        /\ reqs[i].path = ScrapePath
        /\ TokenLess(i)
        /\ reqs[i].phase = "done"
        /\ reqs[i].resp.body = "metrics"
        /\ reqs[i].statsdObs = <<200>>

\* C20: in every state of a request served by the chain, whitelisted = true
\* and claims are not both in its context: whitelisted is true only on the
\* bypass branch of the auth gate, where nothing was extracted or verified
\* and no claims were stored; claims are present only on the verify branch,
\* where whitelisted is unset.
C20_WhitelistedExcludesClaims ==
    \A i \in Slots :
        /\ ~(reqs[i].whiteListed = "true" /\ reqs[i].userToken.present)
        /\ reqs[i].whiteListed = "true" =>
              /\ reqs[i].authBranch = "bypass"
              /\ ~reqs[i].extracted
              /\ reqs[i].verifierCalls = 0
        /\ reqs[i].userToken.present =>
              /\ reqs[i].authBranch = "jwt"
              /\ reqs[i].verifierCalls = 1
              /\ reqs[i].whiteListed = "unset"
        /\ reqs[i].whiteListed \in {"unset", "true"}

\* A request on a whitelisted path carrying a valid token got to the handler
\* with whitelisted = true and no claims.
C20_Witness ==
    \E i \in Slots :
        /\ reqs[i].whiteListed = "true"
        /\ reqs[i].authorization = Bearer(AdminHS)
        /\ ~reqs[i].userToken.present
        /\ "handler" \in reqs[i].reached
====
